---------------------------- MODULE Spec2Model ----------------------------
(***************************************************************************)
(* State-machine model of the membrane_rtmp_plugin natives:                *)
(*   - the egress session   c_src/membrane_rtmp_plugin/sink/rtmp_sink.c    *)
(*   - the relay session    c_src/membrane_rtmp_plugin/rtmp.c              *)
(*   - the ingest session   c_src/membrane_rtmp_plugin/source/rtmp_source.c*)
(* Each session has its own specification (SinkSpec, RelaySpec,            *)
(* SourceSpec); the variables of the other sessions stay at their initial  *)
(* values.                                                                 *)
(***************************************************************************)
EXTENDS Integers, Sequences, FiniteSets, TLC

(***************************************************************************)
(* Bounds of the model.                                                    *)
(***************************************************************************)
\* av_write_trailer calls explored per egress session
MaxTrailerCalls == 2
\* worker threads a relay session may create
MaxThreads == 2
\* packets the relay input delivers before it is exhausted
MaxPackets == 2
\* streams the input of an ingest session may have
MaxSrcStreams == 2
\* packets the input of an ingest session delivers before it is exhausted
MaxSrcPackets == 3
\* largest magnitude of a timestamp taken through a rescale round trip
MaxRescaleValue == 12

(***************************************************************************)
(* Inputs drawn by the callers.                                            *)
(***************************************************************************)
\* dts / pts values handed to write_*_frame, in MEMBRANE_TIME_BASE units (ns)
Timestamps == {0, 1500000, 40000000}

\* avformat_new_stream's default time base (num, den) of a new stream
NewStreamTimeBase == <<1, 90000>>

\* the time base the "flv" muxer gives every stream in avformat_write_header
FlvTimeBase == <<1, 1000>>

TimeBases == {NewStreamTimeBase, FlvTimeBase}

\* how far a video frame's pts may be ahead of its dts
PtsDelays == {0, 2000000}

\* the one timestamp used where the timestamps do not matter: the largest
FrameTime == CHOOSE t \in Timestamps : \A u \in Timestamps : u <= t

\* outcomes of avio_open that try_connect tells apart
ConnectResults == {"ok", "econnrefused", "etimedout", "other"}

Kinds == {"video", "audio"}

\* width x height of a video stream, channels x sample rate of an audio stream
Params == {1, 2}

VARIABLES
  \* ---- egress session: struct State of sink/rtmp_sink.h
  audio_present, video_present, closed,
  video_stream_index, current_video_dts,
  audio_stream_index, current_audio_pts,
  header_written,
  output_ctx,         \* "alloc" after create, "freed" after avformat_free_context
  \* ---- egress session: the container behind output_ctx
  streams,            \* output_ctx->streams: one record per avformat_new_stream
  pb,                 \* "none" | "open" | "closed": the AVIO handle
  \* ---- egress session: what the caller and the muxer observed
  sink_op,            \* the last native called
  sink_result,        \* what it returned
  header_calls,       \* avformat_write_header calls
  header_ok,          \* avformat_write_header calls that succeeded
  header_failed,      \* some avformat_write_header call failed
  trailer_calls,      \* av_write_trailer calls
  trailer_ok,         \* av_write_trailer calls that succeeded
  close_called,       \* flush_and_close_stream has been called
  handed,             \* the last native called reached av_write_frame
  av_result,          \* what av_write_frame returned to it, 0 if not reached
  last_packet,        \* the packet of the last av_write_frame call
  handed_ts,          \* per kind: timestamp of the last packet handed over
  released,           \* avformat_free_context calls
  ready_rises,        \* times is_ready went from false to true
  used_released,      \* a native used output_ctx after it was freed
  sink_destroyed,     \* handle_destroy_state has run
  \* ---- relay session: struct State of rtmp.h
  ready,              \* state->ready
  thread,             \* state->thread: the worker created last, 0 for none
  input_ctx,          \* "open" | "null" (after avformat_close_input)
  buffer,             \* "alloc" | "freed"
  \* ---- relay session: the worker threads running get_frame
  pc,                 \* per thread: where it is in get_frame
  packet,             \* per thread: stream index of the packet it holds, -1 none
  input_left,         \* packets the input still delivers
  \* ---- relay session: the caller and what was observed
  caller,             \* "idle" | "stop_join" | "destroy_join" | "destroyed"
  relay_op,           \* the last native the caller called
  relay_result,       \* what it returned
  relay_log,          \* output and messages in order: <<thread, event>>
  joined,             \* threads unifex_thread_join has returned for
  relay_fault,        \* a freed handle was used or a thread joined twice
  \* ---- ingest session: struct State of source/rtmp_source.h
  source_input_ctx,   \* s->input_ctx: "alloc" | "open" | "null"
  source_number_of_streams, \* s->number_of_streams
  terminating,        \* s->terminating
  h264_bsf_ctx,       \* "alloc" | "configured" | "init" | "freed"
  \* ---- ingest session: the input behind input_ctx
  in_streams,         \* the streams avformat_find_stream_info finds
  in_packets,         \* stream indices of the packets still to be read
  \* ---- ingest session: the callers and what they observed
  source_pc,          \* "created" | "poll" | "wait" | "probe" | "returned"
                      \* | "destroyed": where the session's await_open is
  timeout,            \* the timeout argument of await_open
  open_result,        \* what await_open returned, "none" / "pending" before
  polled_set,         \* interrupt_cb has returned non-zero
  source_op,          \* the last get_*_params / read_frame call
  source_result,      \* what it returned
  payload,            \* payload of the frame read_frame returned
  \* ---- timestamp rescaling round trip
  rescaled            \* [v, a, b, there, back, stage]

sinkVars == <<audio_present, video_present, closed, video_stream_index,
              current_video_dts, audio_stream_index, current_audio_pts,
              header_written, output_ctx, streams, pb,
              sink_op, sink_result, header_calls, header_ok, header_failed,
              trailer_calls, trailer_ok, close_called, handed, av_result,
              last_packet, handed_ts,
              released, ready_rises, used_released, sink_destroyed>>

\* the fields of struct State plus the container: the session state proper
sinkSession == <<audio_present, video_present, closed, video_stream_index,
                 current_video_dts, audio_stream_index, current_audio_pts,
                 header_written, output_ctx, streams, pb>>

relayVars == <<ready, thread, input_ctx, buffer, pc, packet, input_left,
               caller, relay_op, relay_result, relay_log, joined, relay_fault>>

sourceVars == <<source_input_ctx, source_number_of_streams, terminating,
                h264_bsf_ctx, in_streams, in_packets, source_pc, timeout,
                open_result, polled_set, source_op, source_result, payload>>

rescaleVars == <<rescaled>>

\* what the natives of the egress session never touch
notSinkVars == <<relayVars, sourceVars, rescaleVars>>

vars == <<sinkVars, relayVars, sourceVars, rescaleVars>>

(***************************************************************************)
(* Timestamp rescaling (libavutil, as called by the natives).              *)
(***************************************************************************)
MEMBRANE_TIME_BASE == <<1, 1000000000>>

Abs(x) == IF x < 0 THEN -x ELSE x

RECURSIVE Gcd(_, _)
Gcd(a, b) == IF b = 0 THEN a ELSE Gcd(b, a % b)

\* av_rescale_rnd(a, b, c, AV_ROUND_ZERO): a * b / c rounded toward zero
av_rescale_rnd_Zero(a, b, c) ==
  LET q == (Abs(a) * (b \div Gcd(b, c))) \div (c \div Gcd(b, c))
  IN  IF a < 0 THEN -q ELSE q

\* av_rescale_rnd(a, b, c, AV_ROUND_NEAR_INF): a * b / c rounded to the
\* nearest integer, halfway cases away from zero.  b / c is reduced first so
\* that the product stays inside the model checker's integers.
av_rescale_rnd(a, b, c) ==
  LET g  == Gcd(b, c)
      bb == b \div g
      cc == c \div g
      m  == Abs(a)
      q  == (2 * m * bb + cc) \div (2 * cc)
  IN  IF a < 0 THEN -q ELSE q

\* av_rescale_q(a, bq, cq): a in units of bq, expressed in units of cq
av_rescale_q(a, bq, cq) == av_rescale_rnd(a, bq[1] * cq[2], cq[1] * bq[2])

(***************************************************************************)
(* Egress session: sink/rtmp_sink.c                                        *)
(***************************************************************************)
NoPacket == [kind |-> "none", dts |-> 0, pts |-> 0, duration |-> 0,
             key |-> FALSE, stream_index |-> -1]

\* create() followed by a successful allocation; handle_init_state
SinkInit ==
  /\ audio_present \in BOOLEAN
  /\ video_present \in BOOLEAN
  /\ closed = FALSE
  /\ video_stream_index = -1
  /\ current_video_dts = 0
  /\ audio_stream_index = -1
  /\ current_audio_pts = 0
  /\ header_written = FALSE
  /\ output_ctx = "alloc"
  /\ streams = <<>>
  /\ pb = "none"
  /\ sink_op = "create"
  /\ sink_result = "ok"
  /\ header_calls = 0
  /\ header_ok = 0
  /\ header_failed = FALSE
  /\ trailer_calls = 0
  /\ trailer_ok = 0
  /\ close_called = FALSE
  /\ handed = FALSE
  /\ av_result = 0
  /\ last_packet = NoPacket
  /\ handed_ts = [k \in Kinds |-> 0]
  /\ released = 0
  /\ ready_rises = 0
  /\ used_released = FALSE
  /\ sink_destroyed = FALSE

\* is_ready with || for &&: one registered kind is enough
is_ready_of_Either(ap, vp, ai, vi) == (~ap \/ ai # -1) \/ (~vp \/ vi # -1)

\* is_ready(state), on explicit field values
is_ready_of(ap, vp, ai, vi) == (~ap \/ ai # -1) /\ (~vp \/ vi # -1)

is_ready == is_ready_of(audio_present, video_present,
                        audio_stream_index, video_stream_index)

\* after handle_destroy_state the resource is gone; after a fault the VM is
SinkLive == ~sink_destroyed /\ sink_result # "crash"

\* what a native does to the fields it never writes
SinkKeepsLog ==
  /\ handed' = FALSE
  /\ av_result' = 0
  /\ UNCHANGED notSinkVars
  /\ UNCHANGED <<header_calls, header_ok, header_failed, trailer_calls,
                 trailer_ok, close_called, last_packet, handed_ts, released,
                 ready_rises>>

(* try_connect: avio_open on the container's url.  "flv" is not an          *)
(* AVFMT_NOFILE format, so avio_open is always called.                      *)
try_connect(av_err) ==
  /\ SinkLive
  /\ pb' = IF av_err = "ok" THEN "open" ELSE pb
  /\ sink_result' = IF av_err = "other" THEN "error" ELSE av_err
  /\ sink_op' = "try_connect"
  /\ used_released' = (used_released \/ output_ctx = "freed")
  /\ UNCHANGED <<audio_present, video_present, closed, video_stream_index,
                 current_video_dts, audio_stream_index, current_audio_pts,
                 header_written, output_ctx, streams, sink_destroyed>>
  /\ SinkKeepsLog

\* flush_and_close_stream's early return: !output_ctx || closed || !is_ready
\* (output_ctx is never reset to NULL, not even by avformat_free_context)
CloseIsNoop == closed \/ ~is_ready

\* flush_and_close_stream on the session; trailer_fails is av_write_trailer's
\* outcome when it is called
CloseBody(trailer_fails) ==
  IF CloseIsNoop
  THEN UNCHANGED <<closed, output_ctx, pb, trailer_calls, trailer_ok, released>>
  ELSE /\ trailer_calls' = trailer_calls + 1
       /\ IF trailer_fails
          THEN UNCHANGED <<closed, output_ctx, pb, trailer_ok, released>>
          ELSE /\ trailer_ok' = trailer_ok + 1
               /\ pb' = IF pb = "open" THEN "closed" ELSE pb
               /\ output_ctx' = "freed"
               /\ released' = released + 1
               /\ closed' = TRUE

CloseResult(trailer_fails) ==
  IF CloseIsNoop THEN "ok" ELSE IF trailer_fails THEN "raise" ELSE "ok"

CloseKeeps ==
  /\ handed' = FALSE
  /\ av_result' = 0
  /\ UNCHANGED notSinkVars
  /\ UNCHANGED <<audio_present, video_present, video_stream_index,
                 current_video_dts, audio_stream_index, current_audio_pts,
                 header_written, streams, header_calls, header_ok,
                 header_failed, last_packet, handed_ts, ready_rises,
                 used_released>>

flush_and_close_stream(trailer_fails) ==
  /\ SinkLive
  /\ CloseIsNoop \/ trailer_calls < MaxTrailerCalls
  /\ CloseBody(trailer_fails)
  /\ sink_result' = CloseResult(trailer_fails)
  /\ sink_op' = "flush_and_close_stream"
  /\ close_called' = TRUE
  /\ UNCHANGED sink_destroyed
  /\ CloseKeeps

\* finalize_stream: return flush_and_close_stream(env, state)
finalize_stream(trailer_fails) == flush_and_close_stream(trailer_fails)

\* handle_destroy_state: if (!state->closed) flush_and_close_stream(env, state)
sink_handle_destroy_state(trailer_fails) ==
  /\ SinkLive
  /\ CloseIsNoop \/ trailer_calls < MaxTrailerCalls
  /\ IF ~closed
     THEN CloseBody(trailer_fails)
     ELSE UNCHANGED <<closed, output_ctx, pb, trailer_calls, trailer_ok,
                      released>>
  /\ sink_op' = "handle_destroy_state"
  /\ sink_result' = "void"
  /\ sink_destroyed' = TRUE
  /\ UNCHANGED close_called
  /\ CloseKeeps

\* avformat_new_stream's record for a stream whose codecpar is not yet filled
NewStream == [codec_type |-> "unknown", param |-> 0, extradata |-> FALSE,
              time_base |-> NewStreamTimeBase]

\* codecpar->extradata allocated and filled from the payload
WithExtradata(st) == [st EXCEPT !.extradata = TRUE]

\* avformat_write_header: the muxer sets the streams' time base
SetTimeBases(ss) ==
  [i \in DOMAIN ss |-> [ss[i] EXCEPT !.time_base = FlvTimeBase]]

\* HeaderDue without the header_written test
HeaderDue_Unguarded(ready_now, hw) == ready_now

\* the guard of the header write: if (ready_now && !state->header_written)
HeaderDue(ready_now, hw) == ready_now /\ ~hw

\* what the environment may do to an init_*_stream call
InitEnvs == {"ok", "no_stream", "no_layout", "no_memory", "header_error"}

\* the tail shared by init_video_stream and init_audio_stream:
\*   bool ready_now = is_ready(state);
\*   if (ready_now && !state->header_written) { avformat_write_header ... }
\* ss is output_ctx->streams with the new stream in place
WriteHeaderIfReady(ready_now, ss, env) ==
  IF HeaderDue(ready_now, header_written)
  THEN /\ header_calls' = header_calls + 1
       /\ IF env = "header_error"
          THEN /\ header_failed' = TRUE
               /\ streams' = ss
               /\ sink_result' = "raise"
               /\ UNCHANGED <<header_written, header_ok>>
          ELSE /\ header_written' = TRUE
               /\ header_ok' = header_ok + 1
               /\ streams' = SetTimeBases(ss)
               /\ sink_result' = "ok_ready"
               /\ UNCHANGED header_failed
  ELSE /\ streams' = ss
       /\ sink_result' = IF ready_now THEN "ok_ready" ELSE "ok_not_ready"
       /\ UNCHANGED <<header_calls, header_ok, header_failed, header_written>>

InitKeeps ==
  /\ handed' = FALSE
  /\ av_result' = 0
  /\ UNCHANGED notSinkVars
  /\ UNCHANGED <<audio_present, video_present, closed, current_video_dts,
                 current_audio_pts, output_ctx, pb, trailer_calls, trailer_ok,
                 close_called, last_packet, handed_ts, released,
                 sink_destroyed>>

\* every expected kind is registered, given the two stream indices
ExpectedRegistered(ai, vi) ==
  (audio_present => ai # -1) /\ (video_present => vi # -1)

\* 1 when a call that leaves the indices ai, vi makes the session ready
RisesBy(ai, vi) ==
  IF ~ExpectedRegistered(audio_stream_index, video_stream_index)
     /\ ExpectedRegistered(ai, vi)
  THEN 1 ELSE 0

\* init_video_stream without its early return
VideoFormatResent_Never == FALSE

\* the early return of init_video_stream: video_stream_index != -1
VideoFormatResent == video_stream_index # -1

\* the early return of init_audio_stream: audio_stream_index != -1
AudioFormatResent == audio_stream_index # -1

\* write_video_frame testing the wrong index
VideoNotInitialized_Audio == audio_stream_index = -1

\* the early return of write_video_frame: video_stream_index == -1
VideoNotInitialized == video_stream_index = -1

\* the early return of write_audio_frame: audio_stream_index == -1
AudioNotInitialized == audio_stream_index = -1

init_video_stream(param, env) ==
  /\ SinkLive
  /\ sink_op' = "init_video_stream"
  /\ InitKeeps
  /\ IF VideoFormatResent
       THEN /\ sink_result' = "stream_format_resent"
            /\ UNCHANGED <<video_stream_index, audio_stream_index, streams,
                           header_written, header_calls, header_ok,
                           header_failed, ready_rises, used_released>>
       ELSE /\ used_released' = (used_released \/ output_ctx = "freed")
            /\ UNCHANGED audio_stream_index
            /\ IF env = "no_stream"
               THEN /\ sink_result' = "raise"
                    /\ UNCHANGED <<video_stream_index, streams, header_written,
                                   header_calls, header_ok, header_failed,
                                   ready_rises>>
               ELSE LET idx   == Len(streams)
                        st    == [NewStream EXCEPT !.codec_type = "video",
                                                   !.param = param]
                        ready_now == is_ready_of(audio_present, video_present,
                                             audio_stream_index, idx)
                    IN  /\ video_stream_index' = idx
                        /\ ready_rises' =
                             ready_rises + RisesBy(audio_stream_index, idx)
                        /\ IF env = "no_memory"
                           THEN /\ streams' = Append(streams, st)
                                /\ sink_result' = "raise"
                                /\ UNCHANGED <<header_written, header_calls,
                                               header_ok, header_failed>>
                           ELSE WriteHeaderIfReady(ready_now,
                                  Append(streams, WithExtradata(st)), env)

\* init_audio_stream has one more allocation, the channel layout, which fails
\* before codecpar is filled; the extradata allocation fails after
init_audio_stream(param, env) ==
  /\ SinkLive
  /\ sink_op' = "init_audio_stream"
  /\ InitKeeps
  /\ IF AudioFormatResent
       THEN /\ sink_result' = "stream_format_resent"
            /\ UNCHANGED <<video_stream_index, audio_stream_index, streams,
                           header_written, header_calls, header_ok,
                           header_failed, ready_rises, used_released>>
       ELSE /\ used_released' = (used_released \/ output_ctx = "freed")
            /\ UNCHANGED video_stream_index
            /\ IF env = "no_stream"
               THEN /\ sink_result' = "raise"
                    /\ UNCHANGED <<audio_stream_index, streams, header_written,
                                   header_calls, header_ok, header_failed,
                                   ready_rises>>
               ELSE LET idx   == Len(streams)
                        st    == [NewStream EXCEPT !.codec_type = "audio",
                                                   !.param = param]
                        ready_now == is_ready_of(audio_present, video_present,
                                             idx, video_stream_index)
                    IN  /\ audio_stream_index' = idx
                        /\ ready_rises' =
                             ready_rises + RisesBy(idx, video_stream_index)
                        /\ IF env = "no_layout"
                           THEN /\ streams' = Append(streams, NewStream)
                                /\ sink_result' = "raise"
                                /\ UNCHANGED <<header_written, header_calls,
                                               header_ok, header_failed>>
                           ELSE IF env = "no_memory"
                           THEN /\ streams' = Append(streams, st)
                                /\ sink_result' = "raise"
                                /\ UNCHANGED <<header_written, header_calls,
                                               header_ok, header_failed>>
                           ELSE WriteHeaderIfReady(ready_now,
                                  Append(streams, WithExtradata(st)), env)

\* streams[index]->time_base as the native reads it: the stream's time base,
\* or whatever the freed memory holds once the container is released
StreamTimeBases(index) ==
  IF output_ctx = "freed" \/ index + 1 \notin DOMAIN streams
  THEN TimeBases
  ELSE {streams[index + 1].time_base}

\* write_*_frame dropping av_write_frame's return value
WriteResult_Ignored(result) == "ok"

\* the result of write_*_frame from av_write_frame's: if (result) error, else ok
WriteResult(result) == IF result # 0 THEN "error_av" ELSE "ok"

\* av_write_frame's return value under each environment
AvWriteFrame(env) == IF env = "rejected" THEN -1 ELSE 0

\* the video duration taken from the audio's running timestamp
VideoDuration_Audio(dts_scaled) == dts_scaled - current_audio_pts

\* packet->duration = dts_scaled - state->current_video_dts
VideoDuration(dts_scaled) == dts_scaled - current_video_dts

\* packet->duration = pts_scaled - state->current_audio_pts
AudioDuration(pts_scaled) == pts_scaled - current_audio_pts

WriteKeeps ==
  /\ UNCHANGED notSinkVars
  /\ UNCHANGED <<audio_present, video_present, closed, video_stream_index,
                 audio_stream_index, header_written, output_ctx, streams, pb,
                 header_calls, header_ok, header_failed, trailer_calls,
                 trailer_ok, close_called, released, ready_rises,
                 sink_destroyed>>

\* what the environment may do to a write_*_frame call
WriteEnvs == {"ok", "no_memory", "rejected"}

write_video_frame(dts, pts, is_key_frame, env) ==
  /\ SinkLive
  /\ sink_op' = "write_video_frame"
  /\ WriteKeeps
  /\ IF VideoNotInitialized
       THEN /\ sink_result' = "error_not_initialized"
            /\ handed' = FALSE
            /\ av_result' = 0
            /\ UNCHANGED <<current_video_dts, current_audio_pts, last_packet,
                           handed_ts, used_released>>
       ELSE /\ used_released' = (used_released \/ output_ctx = "freed")
            /\ UNCHANGED current_audio_pts
            /\ IF env = "no_memory"
               THEN /\ sink_result' = "raise"
                    /\ handed' = FALSE
                    /\ av_result' = 0
                    /\ UNCHANGED <<current_video_dts, last_packet, handed_ts>>
               ELSE \E video_stream_time_base \in
                          StreamTimeBases(video_stream_index) :
                      LET dts_scaled == av_rescale_q(dts, MEMBRANE_TIME_BASE,
                                                     video_stream_time_base)
                          pts_scaled == av_rescale_q(pts, MEMBRANE_TIME_BASE,
                                                     video_stream_time_base)
                      IN  /\ last_packet' =
                               [kind |-> "video", dts |-> dts_scaled,
                                pts |-> pts_scaled,
                                duration |-> VideoDuration(dts_scaled),
                                key |-> is_key_frame,
                                stream_index |-> video_stream_index]
                          /\ av_result' = AvWriteFrame(env)
                          /\ current_video_dts' = dts_scaled
                          /\ handed' = TRUE
                          /\ handed_ts' =
                               [handed_ts EXCEPT !["video"] = dts_scaled]
                          /\ sink_result' = WriteResult(AvWriteFrame(env))

write_audio_frame(pts, env) ==
  /\ SinkLive
  /\ sink_op' = "write_audio_frame"
  /\ WriteKeeps
  /\ IF AudioNotInitialized
       THEN /\ sink_result' = "error_not_initialized"
            /\ handed' = FALSE
            /\ av_result' = 0
            /\ UNCHANGED <<current_video_dts, current_audio_pts, last_packet,
                           handed_ts, used_released>>
       ELSE /\ used_released' = (used_released \/ output_ctx = "freed")
            /\ UNCHANGED current_video_dts
            /\ IF env = "no_memory"
               THEN /\ sink_result' = "raise"
                    /\ handed' = FALSE
                    /\ av_result' = 0
                    /\ UNCHANGED <<current_audio_pts, last_packet, handed_ts>>
               ELSE \E audio_stream_time_base \in
                          StreamTimeBases(audio_stream_index) :
                      LET pts_scaled == av_rescale_q(pts, MEMBRANE_TIME_BASE,
                                                     audio_stream_time_base)
                      IN  /\ last_packet' =
                               [kind |-> "audio", dts |-> pts_scaled,
                                pts |-> pts_scaled,
                                duration |-> AudioDuration(pts_scaled),
                                key |-> FALSE,
                                stream_index |-> audio_stream_index]
                          /\ av_result' = AvWriteFrame(env)
                          /\ current_audio_pts' = pts_scaled
                          /\ handed' = TRUE
                          /\ handed_ts' =
                               [handed_ts EXCEPT !["audio"] = pts_scaled]
                          /\ sink_result' = WriteResult(AvWriteFrame(env))

\* the natives that dereference output_ctx without testing closed
UsesContainer(op) ==
  \/ op = "try_connect"
  \/ op = "init_video_stream" /\ ~VideoFormatResent
  \/ op = "init_audio_stream" /\ ~AudioFormatResent
  \/ op = "write_video_frame" /\ ~VideoNotInitialized
  \/ op = "write_audio_frame" /\ ~AudioNotInitialized

\* such a native called after avformat_free_context reads freed memory: it
\* may proceed on what the memory holds (the actions above) or fault
sink_use_after_free ==
  /\ SinkLive
  /\ output_ctx = "freed"
  /\ \E op \in {"try_connect", "init_video_stream", "init_audio_stream",
                "write_video_frame", "write_audio_frame"} :
       /\ UsesContainer(op)
       /\ sink_op' = op
  /\ sink_result' = "crash"
  /\ used_released' = TRUE
  /\ UNCHANGED sinkSession
  /\ SinkKeepsLog
  /\ UNCHANGED sink_destroyed

(***************************************************************************)
(* Relay session: rtmp.c                                                   *)
(***************************************************************************)
Threads == 1..MaxThreads

\* s->number_of_streams and s->streams_index as native_create leaves them for
\* an input with one audio/video stream and one data stream
streams_index == <<0, -1>>

number_of_streams == Len(streams_index)

\* stream indices a packet of the input may carry; the last is out of range
PacketIndices == 0..number_of_streams

\* native_create after it succeeded: the output header is written, no worker
RelayInit ==
  /\ ready = FALSE
  /\ thread = 0
  /\ input_ctx = "open"
  /\ buffer = "alloc"
  /\ pc = [t \in Threads |-> "none"]
  /\ packet = [t \in Threads |-> -1]
  /\ input_left \in 0..MaxPackets
  /\ caller = "idle"
  /\ relay_op = "native_create"
  /\ relay_result = "ok"
  /\ relay_log = <<>>
  /\ joined = {}
  /\ relay_fault = FALSE

RelayKeeps == UNCHANGED <<sinkVars, sourceVars, rescaleVars>>

\* the guard shared by stream_frames and get_frame:
\*   !state || !state->input_ctx || !state->output_ctx || state->ready
InvalidToStream == input_ctx = "null" \/ ready

\* threads not yet created
Unborn == {t \in Threads : pc[t] = "none"}

\* stream_frames: test the guard, create the worker, return
stream_frames ==
  /\ caller = "idle"
  /\ relay_op' = "stream_frames"
  /\ IF InvalidToStream
     THEN /\ relay_result' = "error_already_streaming"
          /\ UNCHANGED <<thread, pc>>
     ELSE /\ Unborn # {}
          /\ LET t == CHOOSE u \in Unborn : \A v \in Unborn : u <= v
             IN  /\ thread' = t
                 /\ pc' = [pc EXCEPT ![t] = "check"]
          /\ relay_result' = "ok"
  /\ UNCHANGED <<ready, input_ctx, buffer, packet, input_left, caller,
                 relay_log, joined, relay_fault>>
  /\ RelayKeeps

\* get_frame, entry: return NULL on an invalid state
get_frame_check(t) ==
  /\ pc[t] = "check"
  /\ pc' = [pc EXCEPT ![t] = IF InvalidToStream THEN "done" ELSE "set"]
  /\ UNCHANGED <<ready, thread, input_ctx, buffer, packet, input_left, caller,
                 relay_op, relay_result, relay_log, joined, relay_fault>>
  /\ RelayKeeps

\* get_frame: state->ready = true
get_frame_set_ready(t) ==
  /\ pc[t] = "set"
  /\ ready' = TRUE
  /\ pc' = [pc EXCEPT ![t] = "loop"]
  /\ UNCHANGED <<thread, input_ctx, buffer, packet, input_left, caller,
                 relay_op, relay_result, relay_log, joined, relay_fault>>
  /\ RelayKeeps

\* get_frame, loop condition, left operand: state->ready
get_frame_loop(t) ==
  /\ pc[t] = "loop"
  /\ pc' = [pc EXCEPT ![t] = IF ready THEN "read" ELSE "exit"]
  /\ UNCHANGED <<ready, thread, input_ctx, buffer, packet, input_left, caller,
                 relay_op, relay_result, relay_log, joined, relay_fault>>
  /\ RelayKeeps

\* get_frame, loop condition, right operand: av_read_frame(input_ctx, &packet)
get_frame_read(t) ==
  /\ pc[t] = "read"
  /\ IF input_ctx = "open" /\ input_left > 0
     THEN /\ \E si \in PacketIndices : packet' = [packet EXCEPT ![t] = si]
          /\ input_left' = input_left - 1
          /\ pc' = [pc EXCEPT ![t] = "write"]
          /\ UNCHANGED relay_fault
     ELSE /\ pc' = [pc EXCEPT ![t] = "exit"]
          /\ relay_fault' = (relay_fault \/ input_ctx = "null")
          /\ UNCHANGED <<packet, input_left>>
  /\ UNCHANGED <<ready, thread, input_ctx, buffer, caller, relay_op,
                 relay_result, relay_log, joined>>
  /\ RelayKeeps

\* the test of the loop body: the packet's stream is mapped to an output stream
Forwarded(si) == ~(si >= number_of_streams \/ streams_index[si + 1] < 0)

\* get_frame, loop body: rescale, av_interleaved_write_frame, av_packet_unref
get_frame_write(t) ==
  /\ pc[t] = "write"
  /\ relay_log' = IF Forwarded(packet[t])
                  THEN Append(relay_log, <<t, "packet">>)
                  ELSE relay_log
  /\ relay_fault' = (relay_fault \/ (Forwarded(packet[t]) /\ buffer = "freed"))
  /\ packet' = [packet EXCEPT ![t] = -1]
  /\ pc' = [pc EXCEPT ![t] = "loop"]
  /\ UNCHANGED <<ready, thread, input_ctx, buffer, input_left, caller,
                 relay_op, relay_result, joined>>
  /\ RelayKeeps

\* get_frame, after the loop: state->ready = false
get_frame_exit(t) ==
  /\ pc[t] = "exit"
  /\ ready' = FALSE
  /\ pc' = [pc EXCEPT ![t] = "trailer"]
  /\ UNCHANGED <<thread, input_ctx, buffer, packet, input_left, caller,
                 relay_op, relay_result, relay_log, joined, relay_fault>>
  /\ RelayKeeps

\* get_frame: av_write_trailer(state->output_ctx)
get_frame_trailer(t) ==
  /\ pc[t] = "trailer"
  /\ relay_log' = Append(relay_log, <<t, "trailer">>)
  /\ relay_fault' = (relay_fault \/ buffer = "freed")
  /\ pc' = [pc EXCEPT ![t] = "eos"]
  /\ UNCHANGED <<ready, thread, input_ctx, buffer, packet, input_left, caller,
                 relay_op, relay_result, joined>>
  /\ RelayKeeps

\* get_frame: send_end_of_stream, then return
get_frame_eos(t) ==
  /\ pc[t] = "eos"
  /\ relay_log' = Append(relay_log, <<t, "end_of_stream">>)
  /\ pc' = [pc EXCEPT ![t] = "done"]
  /\ UNCHANGED <<ready, thread, input_ctx, buffer, packet, input_left, caller,
                 relay_op, relay_result, joined, relay_fault>>
  /\ RelayKeeps

\* stop_streaming up to unifex_thread_join: the guard, then ready = false
stop_streaming ==
  /\ caller = "idle"
  /\ relay_op' = "stop_streaming"
  /\ IF ~ready
     THEN /\ relay_result' = "error_already_stopped"
          /\ UNCHANGED <<ready, caller>>
     ELSE /\ ready' = FALSE
          /\ caller' = "stop_join"
          /\ relay_result' = "pending"
  /\ UNCHANGED <<thread, input_ctx, buffer, pc, packet, input_left, relay_log,
                 joined, relay_fault>>
  /\ RelayKeeps

\* unifex_thread_join(state->thread) returns once that thread has returned;
\* a second join of the same thread is undefined and taken to return at once
JoinReturns == pc[thread] = "done"

stop_streaming_join ==
  /\ caller = "stop_join"
  /\ JoinReturns
  /\ caller' = "idle"
  /\ relay_result' = "ok"
  /\ relay_fault' = (relay_fault \/ thread \in joined)
  /\ joined' = joined \cup {thread}
  /\ UNCHANGED <<ready, thread, input_ctx, buffer, pc, packet, input_left,
                 relay_op, relay_log>>
  /\ RelayKeeps

\* handle_destroy_state: stop_streaming(env, s), here up to its join
relay_handle_destroy_state ==
  /\ caller = "idle"
  /\ relay_op' = "handle_destroy_state"
  /\ relay_result' = "void"
  /\ ready' = FALSE
  /\ caller' = IF ready THEN "destroy_join" ELSE "destroy_release"
  /\ UNCHANGED <<thread, input_ctx, buffer, pc, packet, input_left, relay_log,
                 joined, relay_fault>>
  /\ RelayKeeps

\* handle_destroy_state: the join inside its stop_streaming returns
relay_destroy_join ==
  /\ caller = "destroy_join"
  /\ JoinReturns
  /\ caller' = "destroy_release"
  /\ relay_fault' = (relay_fault \/ thread \in joined)
  /\ joined' = joined \cup {thread}
  /\ UNCHANGED <<ready, thread, input_ctx, buffer, pc, packet, input_left,
                 relay_op, relay_result, relay_log>>
  /\ RelayKeeps

\* handle_destroy_state: avformat_close_input, unifex_free(s->buffer)
relay_destroy_release ==
  /\ caller = "destroy_release"
  /\ input_ctx' = "null"
  /\ buffer' = "freed"
  /\ caller' = "destroyed"
  /\ UNCHANGED <<ready, thread, pc, packet, input_left, relay_op, relay_result,
                 relay_log, joined, relay_fault>>
  /\ RelayKeeps

RelayNext ==
  \/ stream_frames
  \/ stop_streaming
  \/ stop_streaming_join
  \/ relay_handle_destroy_state
  \/ relay_destroy_join
  \/ relay_destroy_release
  \/ \E t \in Threads : get_frame_check(t)
  \/ \E t \in Threads : get_frame_set_ready(t)
  \/ \E t \in Threads : get_frame_loop(t)
  \/ \E t \in Threads : get_frame_read(t)
  \/ \E t \in Threads : get_frame_write(t)
  \/ \E t \in Threads : get_frame_exit(t)
  \/ \E t \in Threads : get_frame_trailer(t)
  \/ \E t \in Threads : get_frame_eos(t)

(***************************************************************************)
(* Ingest session: source/rtmp_source.c                                    *)
(***************************************************************************)
\* a stream of the input: its media type and its codec
StreamDescs ==
  { [codec_type |-> "audio", codec_id |-> "aac"],
    [codec_type |-> "video", codec_id |-> "h264"],
    [codec_type |-> "video", codec_id |-> "vp8"],
    [codec_type |-> "data",  codec_id |-> "none"] }

SeqsUpTo(S, n) == UNION {[1..k -> S] : k \in 0..n}

\* stream indices a packet may carry; the last is always out of range
SrcPacketIndices == 0..MaxSrcStreams

\* the timeout argument: 0 waits for ever
Timeouts == {0, 10}

\* create() after it succeeded, handle_init_state included; the allocation
\* leaves number_of_streams with whatever the memory held
SourceInit ==
  /\ source_input_ctx = "alloc"
  /\ source_number_of_streams \in {0, MaxSrcStreams}
  /\ terminating = FALSE
  /\ h264_bsf_ctx = "alloc"
  /\ in_streams \in SeqsUpTo(StreamDescs, MaxSrcStreams)
  /\ in_packets \in SeqsUpTo(SrcPacketIndices, MaxSrcPackets)
  /\ source_pc = "created"
  /\ timeout = 0
  /\ open_result = "none"
  /\ polled_set = FALSE
  /\ source_op = "create"
  /\ source_result = "ok"
  /\ payload = "none"

SourceKeeps == UNCHANGED <<sinkVars, relayVars, rescaleVars>>

\* interrupt_cb(&s->terminating), never interrupting
interrupt_cb_Never == FALSE

\* interrupt_cb(&s->terminating)
interrupt_cb == terminating

\* await_open up to its call of avformat_open_input, which listens and blocks
await_open(tmo) ==
  /\ source_pc = "created"
  /\ timeout' = tmo
  /\ open_result' = "pending"
  /\ source_pc' = "poll"
  /\ UNCHANGED <<source_input_ctx, source_number_of_streams, terminating,
                 h264_bsf_ctx, in_streams, in_packets, polled_set, source_op,
                 source_result, payload>>
  /\ SourceKeeps

\* what await_open returns for a failed avformat_open_input
OpenInputError(av_err) ==
  IF av_err = "ETIMEDOUT" THEN "error_timeout"
  ELSE IF av_err = "AVERROR_EXIT" THEN "error_interrupted"
  ELSE "error_av"

\* avformat_open_input fails with av_err: it frees the context it was given
\* and await_open returns through err
open_input_fails(av_err) ==
  /\ open_result' = OpenInputError(av_err)
  /\ source_input_ctx' = "null"
  /\ source_pc' = "returned"

\* the blocked avformat_open_input polls the interrupt callback before each
\* wait for a connection and fails with AVERROR_EXIT when it returns non-zero
av_check_interrupt ==
  /\ source_pc = "poll"
  /\ IF interrupt_cb
     THEN /\ open_input_fails("AVERROR_EXIT")
          /\ polled_set' = TRUE
     ELSE /\ source_pc' = "wait"
          /\ UNCHANGED <<open_result, source_input_ctx, polled_set>>
  /\ UNCHANGED <<source_number_of_streams, terminating, h264_bsf_ctx,
                 in_streams, in_packets, timeout, source_op, source_result,
                 payload>>
  /\ SourceKeeps

\* how one wait of the blocked avformat_open_input can end
WaitOutcomes == {"again", "connected", "ETIMEDOUT", "EIO"}

\* one wait of the blocked avformat_open_input
av_wait(outcome) ==
  /\ source_pc = "wait"
  /\ outcome = "ETIMEDOUT" => timeout # 0
  /\ CASE outcome = "again" ->
            /\ source_pc' = "poll"
            /\ UNCHANGED <<open_result, source_input_ctx>>
       [] outcome = "connected" ->
            /\ source_pc' = "probe"
            /\ source_input_ctx' = "open"
            /\ UNCHANGED open_result
       [] OTHER -> open_input_fails(outcome)
  /\ UNCHANGED <<source_number_of_streams, terminating, h264_bsf_ctx,
                 in_streams, in_packets, timeout, polled_set, source_op,
                 source_result, payload>>
  /\ SourceKeeps

\* the stream is of a kind the session hands out:
\*   codec_type == AVMEDIA_TYPE_AUDIO || codec_type == AVMEDIA_TYPE_VIDEO
Accepted(codec_type) == codec_type \in {"audio", "video"}

Supported(codec_id) == codec_id \in {"h264", "aac"}

\* the loop of await_open over streams i..n: "unsupported" at the first
\* audio/video stream with another codec, else whether an H264 stream was seen
RECURSIVE ValidateStreams(_, _, _)
ValidateStreams(ss, i, h264) ==
  IF i > Len(ss) THEN IF h264 THEN "h264" ELSE "plain"
  ELSE IF ~Accepted(ss[i].codec_type) THEN ValidateStreams(ss, i + 1, h264)
  ELSE IF ~Supported(ss[i].codec_id)
       THEN IF h264 THEN "unsupported_h264" ELSE "unsupported"
  ELSE ValidateStreams(ss, i + 1, h264 \/ ss[i].codec_id = "h264")

\* await_open after avformat_open_input succeeded: find the streams, count
\* them, validate the codecs, initialise the filter, return
await_open_probe(info_ok) ==
  /\ source_pc = "probe"
  /\ source_pc' = "returned"
  /\ IF ~info_ok
     THEN /\ open_result' = "error_stream_info"
          /\ UNCHANGED <<source_number_of_streams, h264_bsf_ctx>>
     ELSE /\ source_number_of_streams' = Len(in_streams)
          /\ IF Len(in_streams) = 0
             THEN /\ open_result' = "error_no_streams"
                  /\ UNCHANGED h264_bsf_ctx
             ELSE LET v == ValidateStreams(in_streams, 1, FALSE)
                  IN  /\ open_result' =
                           IF v \in {"unsupported", "unsupported_h264"}
                           THEN "error_unsupported_codec" ELSE "ok"
                      /\ h264_bsf_ctx' =
                           IF v \in {"h264", "plain"} THEN "init"
                           ELSE IF v = "unsupported_h264" THEN "configured"
                           ELSE h264_bsf_ctx
  /\ UNCHANGED <<source_input_ctx, terminating, in_streams, in_packets,
                 timeout, polled_set, source_op, source_result, payload>>
  /\ SourceKeeps

\* set_terminate, from any process while the session exists
set_terminate ==
  /\ source_pc # "destroyed"
  /\ terminating' = TRUE
  /\ UNCHANGED <<source_input_ctx, source_number_of_streams, h264_bsf_ctx,
                 in_streams, in_packets, source_pc, timeout, open_result,
                 polled_set, source_op, source_result, payload>>
  /\ SourceKeeps

\* get_audio_params / get_video_params: the first of the number_of_streams
\* streams that is of the kind; reading a stream of a context that is not
\* open, or a stream the context does not have, faults
RECURSIVE GetParams(_, _)
GetParams(kind, i) ==
  IF i > source_number_of_streams THEN "error"
  ELSE IF source_input_ctx # "open" \/ i > Len(in_streams) THEN "crash"
  ELSE IF in_streams[i].codec_type = kind THEN "ok"
  ELSE GetParams(kind, i + 1)

SourceKeepsSession ==
  /\ UNCHANGED <<source_input_ctx, source_number_of_streams, terminating,
                 in_streams, source_pc, timeout, open_result, polled_set>>
  /\ SourceKeeps

get_audio_params ==
  /\ source_pc = "returned" /\ source_result # "crash"
  /\ source_op' = "get_audio_params"
  /\ source_result' = GetParams("audio", 1)
  /\ UNCHANGED <<h264_bsf_ctx, in_packets, payload>>
  /\ SourceKeepsSession

get_video_params ==
  /\ source_pc = "returned" /\ source_result # "crash"
  /\ source_op' = "get_video_params"
  /\ source_result' = GetParams("video", 1)
  /\ UNCHANGED <<h264_bsf_ctx, in_packets, payload>>
  /\ SourceKeepsSession

\* read_frame drops no packet
Excluded_Never(codec_type) == FALSE

\* read_frame drops the packet and reads on:
\*   codec_type != AVMEDIA_TYPE_AUDIO && codec_type != AVMEDIA_TYPE_VIDEO
Excluded(codec_type) == codec_type # "audio" /\ codec_type # "video"

\* the loop of read_frame over the packets pkts av_read_frame still delivers:
\* what it returns and the packets it leaves unread
RECURSIVE ReadLoop(_)
ReadLoop(pkts) ==
  IF pkts = <<>> THEN [result |-> "end_of_stream", rest |-> <<>>]
  ELSE IF Head(pkts) >= source_number_of_streams
       THEN [result |-> "error_invalid_stream_index", rest |-> Tail(pkts)]
  ELSE IF Excluded(in_streams[Head(pkts) + 1].codec_type)
       THEN ReadLoop(Tail(pkts))
  ELSE [result |-> in_streams[Head(pkts) + 1].codec_type,
        rest |-> Tail(pkts)]

\* read_frame on an opened session; filter_ok is whether the bitstream filter
\* gives the video packet back (its return values are not looked at)
read_frame(filter_ok) ==
  /\ source_pc = "returned" /\ open_result = "ok"
  /\ source_result # "crash"
  /\ source_op' = "read_frame"
  /\ LET r == ReadLoop(in_packets)
     IN  /\ in_packets' = r.rest
         /\ source_result' =
              IF r.result \in {"video", "audio", "end_of_stream",
                               "error_invalid_stream_index"}
              THEN r.result ELSE "raise"
         /\ payload' = CASE r.result = "video" ->
                              IF filter_ok THEN "annexb" ELSE "empty"
                         [] r.result = "audio" -> "raw"
                         [] OTHER -> "none"
  /\ UNCHANGED h264_bsf_ctx
  /\ SourceKeepsSession

\* handle_destroy_state; the runtime calls it when no native of the session
\* is running any more
source_handle_destroy_state ==
  /\ source_pc \in {"created", "returned"}
  /\ terminating' = TRUE
  /\ h264_bsf_ctx' = "freed"
  /\ source_input_ctx' = "null"
  /\ source_pc' = "destroyed"
  /\ UNCHANGED <<source_number_of_streams, in_streams, in_packets, timeout,
                 open_result, polled_set, source_op, source_result, payload>>
  /\ SourceKeeps

SourceNext ==
  \/ \E tmo \in Timeouts : await_open(tmo)
  \/ av_check_interrupt
  \/ \E outcome \in WaitOutcomes : av_wait(outcome)
  \/ \E info_ok \in BOOLEAN : await_open_probe(info_ok)
  \/ set_terminate
  \/ get_audio_params
  \/ get_video_params
  \/ \E filter_ok \in BOOLEAN : read_frame(filter_ok)
  \/ source_handle_destroy_state

(***************************************************************************)
(* Timestamp rescaling round trip                                          *)
(***************************************************************************)
\* time bases (num, den) a stream or a caller may use
RescaleBases == {<<1, 1>>, <<1, 2>>, <<1, 3>>, <<2, 3>>, <<1, 1000>>,
                 <<1, 90000>>}

RescaleValues == (0 - MaxRescaleValue)..MaxRescaleValue

RescaleInit ==
  rescaled \in [v : RescaleValues, a : RescaleBases, b : RescaleBases,
                there : {0}, back : {0}, stage : {"start"}]

RescaleKeeps == UNCHANGED <<sinkVars, relayVars, sourceVars>>

\* v from time base a to time base b, as get_pts and write_*_frame do
rescale_there ==
  /\ rescaled.stage = "start"
  /\ rescaled' = [rescaled EXCEPT
                    !.there = av_rescale_q(rescaled.v, rescaled.a, rescaled.b),
                    !.stage = "there"]
  /\ RescaleKeeps

\* and back from time base b to time base a
rescale_back ==
  /\ rescaled.stage = "there"
  /\ rescaled' = [rescaled EXCEPT
                    !.back = av_rescale_q(rescaled.there, rescaled.b,
                                          rescaled.a),
                    !.stage = "back"]
  /\ RescaleKeeps

RescaleNext == rescale_there \/ rescale_back

(***************************************************************************)
(* Specifications                                                          *)
(***************************************************************************)
\* the relay session at rest, for the specifications of the egress session
RelayIdle == RelayInit /\ input_left = 0

\* an egress session at rest, for the specification of the relay session
SinkIdle == SinkInit /\ audio_present /\ video_present

\* an ingest session at rest, for the specifications of the other sessions
SourceIdle ==
  /\ SourceInit
  /\ source_number_of_streams = 0 /\ in_streams = <<>> /\ in_packets = <<>>

\* no round trip under way
RescaleIdle == RescaleInit /\ rescaled.v = 0 /\ rescaled.a = rescaled.b
                           /\ rescaled.a = <<1, 1>>

Init == SinkInit /\ RelayIdle /\ SourceIdle /\ RescaleIdle

\* the egress session from registration to destroy
SinkNext ==
  \/ \E trailer_fails \in BOOLEAN : flush_and_close_stream(trailer_fails)
  \/ \E trailer_fails \in BOOLEAN : finalize_stream(trailer_fails)
  \/ \E env \in InitEnvs : init_video_stream(1, env)
  \/ \E env \in InitEnvs : init_audio_stream(1, env)
  \/ \E env \in WriteEnvs :
        write_video_frame(FrameTime, FrameTime, TRUE, env)
  \/ \E env \in WriteEnvs : write_audio_frame(FrameTime, env)
  \/ sink_use_after_free
  \/ \E trailer_fails \in BOOLEAN : sink_handle_destroy_state(trailer_fails)

SinkSpec == Init /\ [][SinkNext]_vars

\* the egress session while it is set up and fed: connect, register, write
SinkSetupNext ==
  \/ \E av_err \in ConnectResults : try_connect(av_err)
  \/ \E param \in Params, env \in InitEnvs : init_video_stream(param, env)
  \/ \E param \in Params, env \in InitEnvs : init_audio_stream(param, env)
  \/ \E env \in WriteEnvs :
        write_video_frame(FrameTime, FrameTime, TRUE, env)
  \/ \E env \in WriteEnvs : write_audio_frame(FrameTime, env)

SinkSetupSpec == Init /\ [][SinkSetupNext]_vars

\* the egress session under frames of every timestamp
SinkFramesNext ==
  \/ \E env \in InitEnvs : init_video_stream(1, env)
  \/ \E env \in InitEnvs : init_audio_stream(1, env)
  \/ \E dts \in Timestamps, is_key_frame \in BOOLEAN, env \in WriteEnvs :
        \E pts \in {dts + d : d \in PtsDelays} :
          write_video_frame(dts, pts, is_key_frame, env)
  \/ \E pts \in Timestamps, env \in WriteEnvs : write_audio_frame(pts, env)

SinkFramesSpec == Init /\ [][SinkFramesNext]_vars

\* the relay session: one caller, the worker threads it created
RelayStart == SinkIdle /\ RelayInit /\ SourceIdle /\ RescaleIdle

RelaySpec == RelayStart /\ [][RelayNext]_vars

\* one worker thread running get_frame, from its entry test to its return
get_frame(t) ==
  \/ get_frame_check(t)
  \/ get_frame_set_ready(t)
  \/ get_frame_loop(t)
  \/ get_frame_read(t)
  \/ get_frame_write(t)
  \/ get_frame_exit(t)
  \/ get_frame_trailer(t)
  \/ get_frame_eos(t)

\* the relay session with threads that keep running: a created thread is
\* scheduled until it returns, a join returns once its thread has returned
RelayLiveSpec ==
  /\ RelaySpec
  /\ \A t \in Threads : WF_vars(get_frame(t))
  /\ WF_vars(stop_streaming_join)
  /\ WF_vars(relay_destroy_join)
  /\ WF_vars(relay_destroy_release)

\* the ingest session: one caller of the natives, set_terminate from anywhere
SourceStart == SinkIdle /\ RelayIdle /\ SourceInit /\ RescaleIdle

SourceSpec == SourceStart /\ [][SourceNext]_vars

\* the ingest session with a transport that keeps going: a blocked open polls
\* and waits again and again until it returns
SourceLiveSpec ==
  /\ SourceSpec
  /\ WF_vars(av_check_interrupt)
  /\ WF_vars(\E outcome \in WaitOutcomes : av_wait(outcome))
  /\ WF_vars(\E info_ok \in BOOLEAN : await_open_probe(info_ok))

\* timestamps through a rescale and back
RescaleStart == SinkIdle /\ RelayIdle /\ SourceIdle /\ RescaleInit

RescaleSpec == RescaleStart /\ [][RescaleNext]_vars

Spec == SinkSpec
(***************************************************************************)
(* Properties                                                              *)
(***************************************************************************)
InitOps == {"init_video_stream", "init_audio_stream"}

WriteOps == {"write_video_frame", "write_audio_frame"}

\* every expected kind is registered
AllExpectedRegistered ==
  ExpectedRegistered(audio_stream_index, video_stream_index)

\* every registration went through: no stream is left without its codec
\* parameters or its extradata by a failed allocation
RegistrationsComplete ==
  \A i \in DOMAIN streams :
    streams[i].extradata /\ streams[i].codec_type # "unknown"

\* get_frame(t) is past its entry test and has not returned
WorkerActive(t) ==
  pc[t] \in {"set", "loop", "read", "write", "exit", "trailer", "eos"}

\* C1: in a relay session at most one worker thread is active at any time,
\* whatever the interleaving of stream_frames, stop_streaming and the workers
C1_AtMostOneWorker == Cardinality({t \in Threads : WorkerActive(t)}) <= 1

ResentLeaves ==
  UNCHANGED <<audio_present, video_present, closed, video_stream_index,
              current_video_dts, audio_stream_index, current_audio_pts,
              header_written, output_ctx, streams, pb, header_calls,
              header_ok, trailer_calls, released>>

\* C4: init_video_stream (init_audio_stream) on a session where that kind is
\* already registered returns StreamFormatResent and changes nothing: indices,
\* stream parameters, header_written, closed, running timestamps, streams
C4_ResentKeepsState ==
  [][/\ sink_op' = "init_video_stream" /\ video_stream_index # -1
          => sink_result' = "stream_format_resent" /\ ResentLeaves
     /\ sink_op' = "init_audio_stream" /\ audio_stream_index # -1
          => sink_result' = "stream_format_resent" /\ ResentLeaves]_vars

C4_Witness ==
  /\ sink_op = "init_video_stream" /\ sink_result = "stream_format_resent"
  /\ current_video_dts # 0
  /\ header_written

\* C5: write_video_frame (write_audio_frame) on a session where that kind is
\* not registered returns an error, hands nothing to the muxer and leaves both
\* running timestamps unchanged
C5_UnregisteredWrite ==
  [][/\ sink_op' = "write_video_frame" /\ video_stream_index = -1
          => /\ sink_result' = "error_not_initialized"
             /\ ~handed'
             /\ UNCHANGED <<current_video_dts, current_audio_pts,
                            last_packet, handed_ts>>
     /\ sink_op' = "write_audio_frame" /\ audio_stream_index = -1
          => /\ sink_result' = "error_not_initialized"
             /\ ~handed'
             /\ UNCHANGED <<current_video_dts, current_audio_pts,
                            last_packet, handed_ts>>]_vars

C5_Witness ==
  /\ sink_op = "write_video_frame" /\ sink_result = "error_not_initialized"
  /\ video_stream_index = -1
  /\ current_audio_pts # 0

\* C6: over any sequence of close calls, also when the first trailer write
\* fails, av_write_trailer is called at most once and every close call after
\* the first returns ok
C6_CloseTwice ==
  /\ [](trailer_calls <= 1)
  /\ [][close_called /\ sink_op' = "flush_and_close_stream"
          => sink_result' = "ok"]_vars

\* C7: once handle_destroy_state has run, the container has been released
\* exactly once
C7_ReleasedOnce == sink_destroyed => released = 1

\* C8: after a failed header write no write_*_frame hands a packet to the
\* muxer and no call writes a header or a trailer
C8_HeaderFailureFatal ==
  [][header_failed =>
       /\ ~handed'
       /\ header_calls' = header_calls
       /\ trailer_calls' = trailer_calls]_vars

\* C9: a frame the transport rejects makes write_*_frame return an Error
\* result and leaves the session open: closed, header_written and the
\* registrations are unchanged, and the next write of a registered kind
\* reaches the muxer again
C9_RejectedFrame ==
  /\ [](handed /\ av_result # 0 => sink_result = "error_av")
  /\ [][handed' /\ av_result' # 0 =>
          UNCHANGED <<closed, header_written, video_stream_index,
                      audio_stream_index, streams, output_ctx>>]_vars
  /\ [](handed /\ av_result # 0 /\ video_stream_index # -1 =>
          ENABLED (write_video_frame(FrameTime, FrameTime, TRUE, "ok")
                   /\ handed'))
  /\ [](handed /\ av_result # 0 /\ audio_stream_index # -1 =>
          ENABLED (write_audio_frame(FrameTime, "ok") /\ handed'))

C9_Witness ==
  /\ handed /\ av_result # 0 /\ sink_op = "write_video_frame"
  /\ ~closed /\ header_written
  /\ audio_stream_index # -1

\* C10: a frame handed to the muxer has its duration equal to its scaled
\* timestamp minus that of the frame of the same kind handed over before it
\* (0 before the first), and a write leaves the other kind's running timestamp
C10_DurationIsDelta ==
  [][/\ handed' /\ sink_op' = "write_video_frame"
          => /\ last_packet'.kind = "video"
             /\ last_packet'.duration =
                  last_packet'.dts - handed_ts["video"]
             /\ current_video_dts' = last_packet'.dts
             /\ current_audio_pts' = current_audio_pts
     /\ handed' /\ sink_op' = "write_audio_frame"
          => /\ last_packet'.kind = "audio"
             /\ last_packet'.duration =
                  last_packet'.dts - handed_ts["audio"]
             /\ last_packet'.pts = last_packet'.dts
             /\ current_audio_pts' = last_packet'.dts
             /\ current_video_dts' = current_video_dts]_vars

C10_Witness ==
  /\ handed /\ last_packet.kind = "video"
  /\ last_packet.duration # 0 /\ last_packet.duration # last_packet.dts
  /\ current_audio_pts # 0
  /\ current_audio_pts # last_packet.dts - last_packet.duration

(***************************************************************************)
(* Properties of the relay session                                         *)
(***************************************************************************)
\* thread t has been created and get_frame(t) has not returned
WorkerRunning(t) == pc[t] \notin {"none", "done"}

\* a step that is a call of stream_frames / of stop_streaming by the caller
StreamFramesCalled ==
  /\ caller = "idle" /\ relay_op' = "stream_frames"
  /\ \A t \in Threads : pc'[t] = pc[t] \/ pc[t] = "none"

StopStreamingCalled ==
  /\ caller = "idle" /\ relay_op' = "stop_streaming"
  /\ pc' = pc

\* messages and output of thread t, in order
LogOf(t) == SelectSeq(relay_log, LAMBDA e : e[1] = t)

EndOfStreams(t) ==
  Cardinality({i \in DOMAIN relay_log :
                 relay_log[i] = <<t, "end_of_stream">>})

\* C11: stop_streaming called while no worker is running returns
\* AlreadyStopped, stream_frames called while a worker is running (from its
\* creation on) returns AlreadyStreaming, and the stream_frames that follows
\* a stop_streaming that returned ok returns ok
C11_CallResults ==
  /\ [][StopStreamingCalled /\ ~(\E t \in Threads : WorkerRunning(t))
         => relay_result' = "error_already_stopped"]_vars
  /\ [][StreamFramesCalled /\ (\E t \in Threads : WorkerRunning(t))
         => relay_result' = "error_already_streaming"]_vars
  /\ [][StreamFramesCalled /\ relay_op = "stop_streaming"
           /\ relay_result = "ok"
         => relay_result' = "ok"]_vars

\* C12: once stop_streaming has returned ok no worker is running, so no
\* packet is forwarded after the return and none is left half processed
C12_StopJoinsWorker ==
  caller = "idle" /\ relay_op = "stop_streaming" /\ relay_result = "ok"
    => \A t \in Threads : ~WorkerRunning(t)

\* C13: every thread created by stream_frames eventually sends its
\* EndOfStream message, exactly one, and nothing of that thread follows it
C13_EndOfStream ==
  /\ \A t \in Threads : (pc[t] = "check") ~> (EndOfStreams(t) = 1)
  /\ [](\A t \in Threads :
          /\ EndOfStreams(t) <= 1
          /\ EndOfStreams(t) = 1 =>
                LogOf(t)[Len(LogOf(t))] = <<t, "end_of_stream">>)

\* C14: once handle_destroy_state has released the input and the buffer, no
\* worker is about to read the input or to write through the output
C14_NoUseAfterRelease ==
  input_ctx = "null" =>
    \A t \in Threads :
      /\ pc[t] # "read"
      /\ pc[t] # "trailer"
      /\ ~(pc[t] = "write" /\ Forwarded(packet[t]))

(***************************************************************************)
(* Properties of the ingest session                                        *)
(***************************************************************************)
\* a step that is a call of read_frame
ReadFrameCalled ==
  /\ source_op' = "read_frame"
  /\ UNCHANGED <<terminating, source_pc>>

\* position in pkts of the first packet that is out of range or belongs to an
\* audio or video stream, 0 if there is none
FirstStop(pkts) ==
  LET stops == {k \in 1..Len(pkts) :
                  \/ pkts[k] >= Len(in_streams)
                  \/ in_streams[pkts[k] + 1].codec_type \in {"audio", "video"}}
  IN  IF stops = {} THEN 0
      ELSE CHOOSE k \in stops : \A j \in stops : k <= j

\* C15: read_frame returns the first unread packet of an audio or video
\* stream, tagged with its kind, and leaves the packets after it; it returns
\* EndOfStream when the input ends before such a packet, and the invalid
\* stream index error when a packet with an out-of-range index comes first
C15_ReadFrame ==
  [][ReadFrameCalled =>
       LET k == FirstStop(in_packets)
       IN  IF k = 0
           THEN source_result' = "end_of_stream" /\ in_packets' = <<>>
           ELSE /\ in_packets' = SubSeq(in_packets, k + 1, Len(in_packets))
                /\ source_result' =
                     IF in_packets[k] >= Len(in_streams)
                     THEN "error_invalid_stream_index"
                     ELSE in_streams[in_packets[k] + 1].codec_type]_vars

\* read_frame returned an audio frame of an input that also has a data stream
\* and has more packets
C15_Witness ==
  /\ source_op = "read_frame" /\ source_result = "audio"
  /\ \E i \in DOMAIN in_streams : in_streams[i].codec_type = "data"
  /\ in_packets # <<>>

\* await_open got as far as looking at the streams it found
StreamsProbed ==
  open_result \in {"ok", "error_no_streams", "error_unsupported_codec"}

AcceptedStreams ==
  {i \in DOMAIN in_streams : in_streams[i].codec_type \in {"audio", "video"}}

\* C16: after await_open failed on an unsupported codec the session has no
\* streams (its stream count is 0, get_audio_params and get_video_params
\* find nothing) and holds nothing the open acquired
C16_UnsupportedCodec ==
  /\ StreamsProbed
       /\ (\E i \in AcceptedStreams :
              in_streams[i].codec_id \notin {"h264", "aac"})
       => open_result = "error_unsupported_codec"
  /\ open_result = "error_unsupported_codec" =>
       /\ source_number_of_streams = 0
       /\ source_op \in {"get_audio_params", "get_video_params"}
            => source_result = "error"
       /\ source_input_ctx # "open"

\* C17: await_open that found no audio and no video stream fails with
\* NoStreamsFound, also when it found streams of other kinds
C17_NoStreamsFound ==
  StreamsProbed /\ AcceptedStreams = {} => open_result = "error_no_streams"

(***************************************************************************)
(* Properties of the timestamp rescaling                                   *)
(***************************************************************************)
RoundTripDone == rescaled.stage = "back"

RoundTripError == Abs(rescaled.back - rescaled.v)

\* the unit of time base b over the unit of time base a, as num / den
UnitRatioNum == rescaled.b[1] * rescaled.a[2]

UnitRatioDen == rescaled.b[2] * rescaled.a[1]

\* C18 as stated: a timestamp rescaled from a to b and back to a differs
\* from the original by at most 1 unit
C18_RoundTripWithinOne == RoundTripDone => RoundTripError <= 1

\* C18, amended: the round trip is exact when the unit of b is no longer than
\* the unit of a, and otherwise off by at most half a unit of a plus half a
\* unit of b (counted in units of a)
C18_RoundTripBound ==
  RoundTripDone =>
    /\ UnitRatioNum <= UnitRatioDen => rescaled.back = rescaled.v
    /\ 2 * RoundTripError * UnitRatioDen <= UnitRatioDen + UnitRatioNum

\* a round trip through a coarser time base that lost something
C18_Witness ==
  /\ RoundTripDone
  /\ UnitRatioNum > UnitRatioDen
  /\ rescaled.back # rescaled.v

\* await_open is blocked in avformat_open_input, listening
Waiting == source_pc \in {"poll", "wait"}

OpenReturned == source_pc \in {"returned", "destroyed"}

\* C19 as stated: once the terminating flag is set while await_open is
\* blocked, await_open eventually returns the interrupted error and never
\* ok, and the flag never goes back to false
C19_AbortsOpen ==
  /\ (terminating /\ Waiting) ~> (open_result = "error_interrupted")
  /\ [](terminating /\ Waiting => [](open_result # "ok"))
  /\ [][terminating => terminating']_vars

\* C19, amended: once the flag is set while await_open is blocked,
\* await_open eventually returns; the transport's next poll of the flag makes
\* it return the interrupted error, and after such a poll it never returns
\* anything else; the flag never goes back to false
C19_PollAborts ==
  /\ (terminating /\ Waiting) ~> OpenReturned
  /\ [][source_pc = "poll" /\ terminating /\ source_pc' # "poll"
          => open_result' = "error_interrupted" /\ polled_set']_vars
  /\ [](polled_set => open_result = "error_interrupted")
  /\ [][terminating => terminating']_vars

\* a blocked await_open came back interrupted after set_terminate
C19_Witness ==
  /\ terminating /\ polled_set
  /\ source_pc = "returned" /\ open_result = "error_interrupted"

(***************************************************************************)
(* Further properties of the egress session                                *)
(***************************************************************************)
\* C20: the trailer is written only after the header: in every state in
\* which av_write_trailer has been called, header_written is true
C20_TrailerAfterHeader == trailer_calls > 0 => header_written

\* C21: no frame is handed to the muxer before the container header has been
\* written: whenever write_*_frame reached av_write_frame, header_written
C21_HeaderBeforeFrames == handed => header_written

\* C22: once flush_and_close_stream has released the container, no later
\* native uses it
C22_NoUseAfterClose == ~used_released

(***************************************************************************)
(* Further properties of the relay session                                 *)
(***************************************************************************)
\* positions of the trailers in the output
Trailers == {i \in DOMAIN relay_log : relay_log[i][2] = "trailer"}

\* C23: over any sequence of stream_frames / stop_streaming cycles the output
\* trailer is written at most once and no packet is written after it
C23_TrailerOnceAndLast ==
  /\ Cardinality(Trailers) <= 1
  /\ \A i \in Trailers : \A j \in DOMAIN relay_log :
        j > i => relay_log[j][2] # "packet"
=============================================================================
